---- MODULE Spec2Model ----
(***************************************************************************)
(* A model of the school-manager-api data layer: the relational schema     *)
(* with its ON DELETE CASCADE rules (src/src/db/schema.ts), the            *)
(* departments HTTP handlers (src/unnamed/part_000) and the user and       *)
(* course seeders (src/src/db/seeds/users.ts).                             *)
(*                                                                         *)
(* Strings are sequences of one-character tokens so that slugify and       *)
(* capitalizeFirstLetter are computed, not assumed.  Row identifiers       *)
(* (crypto.randomUUID()) are fresh naturals.                               *)
(***************************************************************************)
EXTENDS Integers, Sequences, FiniteSets, Bags, TLC

VARIABLES
    usersTable,                      \* set of user ids
    departmentsTable,                \* set of rows [id, name, slug, createdAt, updatedAt]
    coursesTable,                    \* set of rows [id, departmentId, slug]
    fields,                          \* set of rows [id, courseId]
    lessonRostersTable,              \* set of rows [id, courseId, creatorId]
    marks,                           \* set of rows [id, fieldId, studentId]
    sessionsTable,                   \* set of rows [id, lessonRosterId]
    attendanceTable,                 \* set of rows [id, studentId, periodId]
    coursesToAcademies,              \* bag of rows [courseId, departmentId]
    studentsToLessonRosters,         \* bag of rows [studentId, lessonRosterId]
    departmentLeadersToDepartments,  \* bag of rows [departmentId, departmentLeaderId]
    lecturerToAcademy,               \* bag of rows [departmentId, lecturerId]
    userToDepartment,                \* bag of rows [userId, departmentId, role]
    now,                             \* the wall clock read by new Date() / Date.now()
    nextId,                          \* next fresh department id
    postReq,                         \* the in-flight POST / requests
    bulkReq,                         \* the PATCH / or PATCH /members request and its
                                     \* delete sub-operations
    response,                        \* last response of PUT /:slug and POST /members
    userSeed,                        \* the run of userSeeder
    courseSeed                       \* the run of coursesSeeder

tables == <<usersTable, departmentsTable, coursesTable, fields, lessonRostersTable,
            marks, sessionsTable, attendanceTable, coursesToAcademies,
            studentsToLessonRosters, departmentLeadersToDepartments,
            lecturerToAcademy, userToDepartment>>

dependents == <<coursesTable, fields, lessonRostersTable, marks, sessionsTable,
                attendanceTable, coursesToAcademies, studentsToLessonRosters,
                departmentLeadersToDepartments, lecturerToAcademy, userToDepartment>>

requests == <<postReq, bulkReq, response>>

seeders == <<userSeed, courseSeed>>

vars == <<tables, now, nextId, requests, seeders>>

----------------------------------------------------------------------------
(* Bounds of the model.                                                    *)

\* ids of departments are 1..MaxDeptId; an insert needs nextId <= MaxDeptId
MaxDeptId == 3
\* the clock runs from 0 to MaxTime
MaxTime == 1
\* most rows userToDepartment holds
MaxMemberRows == 2
\* largest length handed to userSeeder
MaxUserSeed == 2001
\* largest length handed to coursesSeeder
MaxCourseSeed == 6
\* maxAttempts of generateUniqueSlug (100 in the source), scaled down
maxAttempts == 2
\* range of the random suffix of generateUniqueSlug (1000 in the source), scaled down
SuffixRange == 1

(* Program constants.                                                      *)
NameMin == 2
NameMax == 100
batchSize == 1000

----------------------------------------------------------------------------
(* Strings.                                                                *)

toLowerCase(c) == CASE c = "A" -> "a" [] c = "B" -> "b" [] OTHER -> c

toUpperCase(c) == CASE c = "a" -> "A" [] c = "b" -> "B" [] OTHER -> c

capitalizeFirstLetter(str) ==
    IF str = <<>> THEN <<>> ELSE <<toUpperCase(Head(str))>> \o Tail(str)

\* lower-case every character and turn white space into a hyphen
Hyphenate(str) ==
    [i \in 1..Len(str) |-> IF str[i] = " " THEN "-" ELSE toLowerCase(str[i])]

\* drop a hyphen that starts the string or follows another hyphen
RECURSIVE Collapse(_, _)
Collapse(str, afterHyphen) ==
    IF str = <<>> THEN <<>>
    ELSE IF Head(str) = "-"
         THEN IF afterHyphen THEN Collapse(Tail(str), TRUE)
              ELSE <<"-">> \o Collapse(Tail(str), TRUE)
         ELSE <<Head(str)>> \o Collapse(Tail(str), FALSE)

TrimEnd(str) ==
    IF str # <<>> /\ str[Len(str)] = "-" THEN SubSeq(str, 1, Len(str) - 1) ELSE str

slugify(name) == TrimEnd(Collapse(Hyphenate(name), TRUE))

\* `${base}-${n}`
WithSuffix(base, n) == base \o <<"-", ToString(n)>>

\* departmentUserRole
LEADER == "leader"
LECTURER == "lecturer"

----------------------------------------------------------------------------
(* The schema: foreign keys and their ON DELETE CASCADE rules.             *)

Ids(T) == {r.id : r \in T}

\* the rows of bag B that satisfy Keep
KeepRows(B, Keep(_)) == [r \in {x \in DOMAIN B : Keep(x)} |-> B[r]]

\* the number of rows of bag B
RowCount(B) == BagCardinality(B)

\* one more copy of row r in bag B
InsertRow(B, r) == B (+) SetToBag({r})

\* course.departmentId references departments.id, onDelete cascade
coursesCascade(T, goneDepts) == {c \in T : c.departmentId \notin goneDepts}

\* field.courseId references course.id, onDelete cascade
fieldsCascade(T, goneCourses) == {f \in T : f.courseId \notin goneCourses}

\* lessonRoster.courseId references course.id and lessonRoster.creatorId
\* references users.id, both onDelete cascade
lessonRostersCascade(T, goneCourses, goneUsers) ==
    {r \in T : r.courseId \notin goneCourses /\ r.creatorId \notin goneUsers}

\* mark.fieldId references field.id and mark.studentId references users.id
marksCascade(T, goneFields, goneUsers) ==
    {m \in T : m.fieldId \notin goneFields /\ m.studentId \notin goneUsers}

\* sessions that outlive their lesson roster: no cascade
sessionsNoCascade(T, goneRosters) == T

\* sessions.lessonRosterId references lessonRoster.id
sessionsCascade(T, goneRosters) == {s \in T : s.lessonRosterId \notin goneRosters}

\* attendance.studentId references users.id and attendance.periodId
\* references sessions.id
attendanceCascade(T, goneSessions, goneUsers) ==
    {a \in T : a.periodId \notin goneSessions /\ a.studentId \notin goneUsers}

\* courseToAcademy.courseId references course.id and
\* courseToAcademy.departmentId references departments.id
coursesToAcademiesCascade(B, goneCourses, goneDepts) ==
    LET Keep(r) == r.courseId \notin goneCourses /\ r.departmentId \notin goneDepts
    IN  KeepRows(B, Keep)

\* studentToLessonRoster.studentId references users.id and
\* studentToLessonRoster.lessonRosterId references lessonRoster.id
studentsToLessonRostersCascade(B, goneUsers, goneRosters) ==
    LET Keep(r) == r.studentId \notin goneUsers /\ r.lessonRosterId \notin goneRosters
    IN  KeepRows(B, Keep)

\* departmentLeadersToAcademy references departments.id and users.id
departmentLeadersToDepartmentsCascade(B, goneDepts, goneUsers) ==
    LET Keep(r) == r.departmentId \notin goneDepts /\ r.departmentLeaderId \notin goneUsers
    IN  KeepRows(B, Keep)

\* lecturerToAcademy references departments.id and users.id
lecturerToAcademyCascade(B, goneDepts, goneUsers) ==
    LET Keep(r) == r.departmentId \notin goneDepts /\ r.lecturerId \notin goneUsers
    IN  KeepRows(B, Keep)

\* the role-qualified membership relation the handlers import; it references
\* departments.id and users.id like the two membership tables above
userToDepartmentCascade(B, goneDepts, goneUsers) ==
    LET Keep(r) == r.departmentId \notin goneDepts /\ r.userId \notin goneUsers
    IN  KeepRows(B, Keep)

\* The database after DELETE of the departments goneDepts, the courses with
\* ids delCourses and the users goneUsers, with every cascade applied.
AfterDelete(db, goneDepts, delCourses, goneUsers) ==
    LET C  == {c \in coursesCascade(db.coursesTable, goneDepts) : c.id \notin delCourses}
        goneCourses  == Ids(db.coursesTable) \ Ids(C)
        F  == fieldsCascade(db.fields, goneCourses)
        goneFields   == Ids(db.fields) \ Ids(F)
        R  == lessonRostersCascade(db.lessonRostersTable, goneCourses, goneUsers)
        goneRosters  == Ids(db.lessonRostersTable) \ Ids(R)
        S  == sessionsCascade(db.sessionsTable, goneRosters)
        goneSessions == Ids(db.sessionsTable) \ Ids(S)
    IN  [usersTable |-> db.usersTable \ goneUsers,
         departmentsTable |-> {d \in db.departmentsTable : d.id \notin goneDepts},
         coursesTable |-> C,
         fields |-> F,
         lessonRostersTable |-> R,
         marks |-> marksCascade(db.marks, goneFields, goneUsers),
         sessionsTable |-> S,
         attendanceTable |-> attendanceCascade(db.attendanceTable, goneSessions, goneUsers),
         coursesToAcademies |->
             coursesToAcademiesCascade(db.coursesToAcademies, goneCourses, goneDepts),
         studentsToLessonRosters |->
             studentsToLessonRostersCascade(db.studentsToLessonRosters, goneUsers, goneRosters),
         departmentLeadersToDepartments |->
             departmentLeadersToDepartmentsCascade(db.departmentLeadersToDepartments,
                                                   goneDepts, goneUsers),
         lecturerToAcademy |->
             lecturerToAcademyCascade(db.lecturerToAcademy, goneDepts, goneUsers),
         userToDepartment |->
             userToDepartmentCascade(db.userToDepartment, goneDepts, goneUsers)]

\* the database as one record
Database ==
    [usersTable |-> usersTable, departmentsTable |-> departmentsTable,
     coursesTable |-> coursesTable, fields |-> fields,
     lessonRostersTable |-> lessonRostersTable, marks |-> marks,
     sessionsTable |-> sessionsTable, attendanceTable |-> attendanceTable,
     coursesToAcademies |-> coursesToAcademies,
     studentsToLessonRosters |-> studentsToLessonRosters,
     departmentLeadersToDepartments |-> departmentLeadersToDepartments,
     lecturerToAcademy |-> lecturerToAcademy,
     userToDepartment |-> userToDepartment]

\* the tables take the values of the record db
Store(db) ==
    /\ usersTable' = db.usersTable
    /\ departmentsTable' = db.departmentsTable
    /\ coursesTable' = db.coursesTable
    /\ fields' = db.fields
    /\ lessonRostersTable' = db.lessonRostersTable
    /\ marks' = db.marks
    /\ sessionsTable' = db.sessionsTable
    /\ attendanceTable' = db.attendanceTable
    /\ coursesToAcademies' = db.coursesToAcademies
    /\ studentsToLessonRosters' = db.studentsToLessonRosters
    /\ departmentLeadersToDepartments' = db.departmentLeadersToDepartments
    /\ lecturerToAcademy' = db.lecturerToAcademy
    /\ userToDepartment' = db.userToDepartment

----------------------------------------------------------------------------
(* The databases the program starts from: a populated database, with the   *)
(* rows of any subset of its departments (and what hangs off them).        *)

PopulatedDatabase ==
    [usersTable |-> {1, 2},
     departmentsTable |->
         {[id |-> 1, name |-> <<"A", "b">>, slug |-> <<"a", "b">>,
           createdAt |-> 0, updatedAt |-> 0],
          [id |-> 2, name |-> <<"A", "b", " ", "1">>, slug |-> <<"a", "b", "-", "1">>,
           createdAt |-> 0, updatedAt |-> 0]},
     coursesTable |->
         {[id |-> 1, departmentId |-> 1, slug |-> <<"c", "1">>],
          [id |-> 2, departmentId |-> 1, slug |-> <<"c", "2">>],
          [id |-> 3, departmentId |-> 2, slug |-> <<"c", "3">>]},
     fields |-> {[id |-> 1, courseId |-> 1], [id |-> 2, courseId |-> 3]},
     lessonRostersTable |->
         {[id |-> 1, courseId |-> 1, creatorId |-> 1],
          [id |-> 2, courseId |-> 3, creatorId |-> 2]},
     marks |->
         {[id |-> 1, fieldId |-> 1, studentId |-> 1],
          [id |-> 2, fieldId |-> 2, studentId |-> 2]},
     sessionsTable |-> {[id |-> 1, lessonRosterId |-> 1], [id |-> 2, lessonRosterId |-> 2]},
     attendanceTable |->
         {[id |-> 1, studentId |-> 2, periodId |-> 1],
          [id |-> 2, studentId |-> 1, periodId |-> 2]},
     coursesToAcademies |->
         InsertRow(SetToBag({[courseId |-> 1, departmentId |-> 1],
                             [courseId |-> 1, departmentId |-> 2],
                             [courseId |-> 3, departmentId |-> 2]}),
                   [courseId |-> 3, departmentId |-> 2]),
     studentsToLessonRosters |->
         InsertRow(SetToBag({[studentId |-> 2, lessonRosterId |-> 1],
                             [studentId |-> 1, lessonRosterId |-> 2]}),
                   [studentId |-> 2, lessonRosterId |-> 1]),
     departmentLeadersToDepartments |->
         SetToBag({[departmentId |-> 1, departmentLeaderId |-> 1],
                   [departmentId |-> 2, departmentLeaderId |-> 1]}),
     lecturerToAcademy |->
         SetToBag({[departmentId |-> 1, lecturerId |-> 2],
                   [departmentId |-> 2, lecturerId |-> 2]}),
     userToDepartment |->
         SetToBag({[userId |-> 2, departmentId |-> 1, role |-> LECTURER]})]

InitialDatabases ==
    {AfterDelete(PopulatedDatabase, gone, {}, {}) : gone \in SUBSET {1, 2}}

InitDatabase ==
    \E db \in InitialDatabases :
        /\ usersTable = db.usersTable
        /\ departmentsTable = db.departmentsTable
        /\ coursesTable = db.coursesTable
        /\ fields = db.fields
        /\ lessonRostersTable = db.lessonRostersTable
        /\ marks = db.marks
        /\ sessionsTable = db.sessionsTable
        /\ attendanceTable = db.attendanceTable
        /\ coursesToAcademies = db.coursesToAcademies
        /\ studentsToLessonRosters = db.studentsToLessonRosters
        /\ departmentLeadersToDepartments = db.departmentLeadersToDepartments
        /\ lecturerToAcademy = db.lecturerToAcademy
        /\ userToDepartment = db.userToDepartment

----------------------------------------------------------------------------
(* Request inputs.                                                         *)

\* names sent as the body of POST / and PUT /:slug
Names == {<<"a">>, <<"A", "b">>, <<"a", "b">>}

\* slugs sent as the path parameter of PUT /:slug
SlugParams == {<<"a", "b">>, <<"a", "b", "-", "1">>, <<"b">>}

\* ids sent in request bodies; 0 stands for the empty string, 3 is the id
\* of no user, and a department id is the id of no department until it is
\* inserted and once it is deleted
DeptIdInputs == 0..3
UserIdInputs == 0..3

\* the role of a POST /members body: absent, a member of the enum, or not
RoleInputs == {"absent", LEADER, LECTURER, "dean"}

\* the ids arrays of PATCH / bodies
IdsInputs == {<<>>, <<1>>, <<2>>, <<3>>, <<1, 2>>, <<2, 2>>, <<2, 3>>, <<1, 2, 3>>}

\* the idObject arrays of PATCH /members bodies
Pair(u, d) == [userId |-> u, departmentId |-> d]

IdObjectInputs == {<<>>, <<Pair(1, 1)>>, <<Pair(2, 1)>>, <<Pair(1, 2)>>,
                   <<Pair(1, 1), Pair(2, 1)>>, <<Pair(2, 2), Pair(2, 2)>>,
                   <<Pair(1, 2), Pair(3, 1)>>}

Slots == {1, 2}

----------------------------------------------------------------------------
(* Validation schemas.                                                     *)

\* createDepartmentSchema: name of 2 to 100 characters
createDepartmentSchema(name) == Len(name) >= NameMin /\ Len(name) <= NameMax

\* assignUserToDepartmentSchema: non-empty ids, role of the enum or absent
assignUserToDepartmentSchema(userId, departmentId, role) ==
    /\ userId # 0
    /\ departmentId # 0
    /\ role \in {"absent", LEADER, LECTURER}

\* the role after validation: absent defaults to LECTURER
RoleOrDefault(role) == IF role = "absent" THEN LECTURER ELSE role

----------------------------------------------------------------------------
(* GET /: the list with its aggregate counts.                              *)

\* departments LEFT JOIN course LEFT JOIN userToDepartment, as a set of
\* joined rows; NULL stands for the columns of a missing right side.  The
\* copy number keeps the duplicates of the membership bag apart.
NULL == [null |-> TRUE]

JoinedRows ==
    UNION {
        LET cs == {c \in coursesTable : c.departmentId = d.id}
            mk == UNION {{[row |-> m, copy |-> k] : k \in 1..userToDepartment[m]} :
                            m \in {x \in DOMAIN userToDepartment : x.departmentId = d.id}}
            courseSide == IF cs = {} THEN {NULL} ELSE cs
            memberSide == IF mk = {} THEN {NULL} ELSE mk
        IN  {[department |-> d, course |-> c, member |-> m] :
                c \in courseSide, m \in memberSide}
        : d \in departmentsTable}

\* the subquery without its role condition
MemberCount(role, id) ==
    LET Match(r) == r.departmentId = id
    IN  RowCount(KeepRows(userToDepartment, Match))

\* (SELECT COUNT(*) FROM userToDepartment WHERE role = r AND departmentId = id)
RoleCount(role, id) ==
    LET Match(r) == r.role = role /\ r.departmentId = id
    IN  RowCount(KeepRows(userToDepartment, Match))

\* count(course.id), without distinct, over the joined rows of one group
coursesCountAll(group) == Cardinality({x \in group : x.course # NULL})

\* count(distinct course.id) over the joined rows of one group
coursesCount(group) == Cardinality({j.course.id : j \in {x \in group : x.course # NULL}})

\* the result of GET /: one row per group of the joined rows
ListDepartments ==
    {LET group == {j \in JoinedRows : j.department.id = d.id}
     IN  [id |-> d.id, name |-> d.name, slug |-> d.slug,
          createdAt |-> d.createdAt, updatedAt |-> d.updatedAt,
          leadersCount |-> RoleCount(LEADER, d.id),
          lecturersCount |-> RoleCount(LECTURER, d.id),
          coursesCount |-> coursesCount(group)]
     : d \in {j.department : j \in JoinedRows}}

----------------------------------------------------------------------------
(* POST /: create a department.                                            *)

IdlePost == [pc |-> "idle", name |-> <<>>, slug |-> <<>>, counter |-> 0,
             status |-> 0, row |-> 0, overlapped |-> FALSE, raced |-> FALSE]

InFlight(r) == postReq[r].pc \in {"check", "insert"}

\* a departments table whose slug column is not unique
SlugNeverTaken(slug) == FALSE

\* the unique constraint of departments.slug
SlugTaken(slug) == \E d \in departmentsTable : d.slug = slug

\* validation, then slug = slugify(name), baseSlug = slug, counter = 1
PostStart(r, name) ==
    /\ ~InFlight(r)
    /\ IF ~createDepartmentSchema(name)
       THEN postReq' = [postReq EXCEPT ![r] = [IdlePost EXCEPT
                            !.pc = "done", !.name = name, !.status = 400]]
       ELSE LET others == \E q \in Slots \ {r} : InFlight(q)
            IN  postReq' = [q \in Slots |->
                    IF q = r
                    THEN [IdlePost EXCEPT !.pc = "check", !.name = name,
                                          !.slug = slugify(name), !.counter = 1,
                                          !.overlapped = others]
                    ELSE IF InFlight(q)
                         THEN [postReq[q] EXCEPT !.overlapped = TRUE]
                         ELSE postReq[q]]
    /\ UNCHANGED <<tables, now, nextId, bulkReq, response, seeders>>

\* one evaluation of the while condition (findFirst by slug) and, when a
\* department is found, one pass through the loop body
PostCheck(r) ==
    /\ postReq[r].pc = "check"
    /\ LET baseSlug == slugify(postReq[r].name)
       IN  IF \E d \in departmentsTable : d.slug = postReq[r].slug
           THEN postReq' = [postReq EXCEPT
                    ![r].slug = WithSuffix(baseSlug, postReq[r].counter),
                    ![r].counter = postReq[r].counter + 1]
           ELSE postReq' = [postReq EXCEPT ![r].pc = "insert"]
    /\ UNCHANGED <<tables, now, nextId, bulkReq, response, seeders>>

\* the slug of the inserted row
InsertedSlug(r) == slugify(postReq[r].name)

\* the insert and the response: 201, or 500 when the insert throws
PostInsert(r) ==
    /\ postReq[r].pc = "insert"
    /\ LET racing == {q \in Slots \ {r} :
                        /\ postReq[q].pc = "insert"
                        /\ slugify(postReq[q].name) = slugify(postReq[r].name)}
           Mark(req) == [q \in Slots |->
                           IF q \in racing THEN [req[q] EXCEPT !.raced = TRUE] ELSE req[q]]
       IN  IF SlugTaken(InsertedSlug(r))
           THEN /\ postReq' = Mark([postReq EXCEPT ![r].pc = "done", ![r].status = 500,
                                                   ![r].raced = @ \/ racing # {}])
                /\ UNCHANGED <<tables, nextId>>
           ELSE /\ nextId <= MaxDeptId
                /\ departmentsTable' = departmentsTable \cup
                       {[id |-> nextId,
                         name |-> capitalizeFirstLetter(postReq[r].name),
                         slug |-> InsertedSlug(r),
                         createdAt |-> now, updatedAt |-> now]}
                /\ nextId' = nextId + 1
                /\ postReq' = Mark([postReq EXCEPT ![r].pc = "done", ![r].status = 201,
                                                   ![r].row = nextId,
                                                   ![r].raced = @ \/ racing # {}])
                /\ UNCHANGED <<usersTable, dependents>>
    /\ UNCHANGED <<now, bulkReq, response, seeders>>

----------------------------------------------------------------------------
(* PUT /:slug: update a department.                                        *)

\* the row after .set({name, createdAt, updatedAt})
UpdatedRow(d, name, date) ==
    [d EXCEPT !.name = capitalizeFirstLetter(name), !.createdAt = date, !.updatedAt = date]

Put(slug, name) ==
    /\ IF ~createDepartmentSchema(name)
       THEN /\ response' = [op |-> "PUT", status |-> 400]
            /\ UNCHANGED departmentsTable
       ELSE /\ departmentsTable' =
                   {IF d.slug = slug THEN UpdatedRow(d, name, now) ELSE d :
                        d \in departmentsTable}
            /\ response' = [op |-> "PUT", status |-> 200]
    /\ UNCHANGED <<usersTable, dependents, now, nextId, postReq, bulkReq,
                   seeders>>

----------------------------------------------------------------------------
(* POST /members: add a membership.                                        *)

\* the foreign keys of userToDepartment
MemberKeysExist(userId, departmentId) ==
    userId \in usersTable /\ departmentId \in Ids(departmentsTable)

AddMember(userId, departmentId, role) ==
    /\ IF ~assignUserToDepartmentSchema(userId, departmentId, role)
       THEN /\ response' = [op |-> "POST /members", status |-> 400]
            /\ UNCHANGED userToDepartment
       ELSE IF ~MemberKeysExist(userId, departmentId)
       THEN /\ response' = [op |-> "POST /members", status |-> 500]
            /\ UNCHANGED userToDepartment
       ELSE /\ RowCount(userToDepartment) < MaxMemberRows
            /\ userToDepartment' = InsertRow(userToDepartment,
                   [userId |-> userId, departmentId |-> departmentId,
                    role |-> RoleOrDefault(role)])
            /\ response' = [op |-> "POST /members", status |-> 200]
    /\ UNCHANGED <<usersTable, departmentsTable, coursesTable, fields, lessonRostersTable,
                   marks, sessionsTable, attendanceTable, coursesToAcademies,
                   studentsToLessonRosters, departmentLeadersToDepartments,
                   lecturerToAcademy, now, nextId, postReq, bulkReq, seeders>>

----------------------------------------------------------------------------
(* PATCH / and PATCH /members: the bulk requests.  Promise.all starts      *)
(* every sub-operation, fulfils when the last one fulfils and rejects as   *)
(* soon as one rejects; the handler answers 200 or 500 right then.         *)

IdleBulk == [kind |-> "none", pc |-> "idle", items |-> <<>>, sub |-> <<>>, status |-> 0]

AllOf(sub, state) == \A i \in 1..Len(sub) : sub[i] = state

\* the request record once every sub-operation of items has been started
Dispatched(kind, items) ==
    [kind |-> kind,
     pc |-> IF items = <<>> THEN "done" ELSE "pending",
     items |-> items,
     sub |-> [i \in 1..Len(items) |-> "pending"],
     status |-> IF items = <<>> THEN 200 ELSE 0]

\* a combinator that settles with the first sub-operation to settle
PromiseRace(status, sub, outcome) ==
    IF status # 0 THEN status
    ELSE IF outcome = "rejected" THEN 500
    ELSE 200

\* the status once Promise.all has settled: it rejects with the first
\* rejection and fulfils with the last fulfilment
PromiseAll(status, sub, outcome) ==
    IF status # 0 THEN status
    ELSE IF outcome = "rejected" THEN 500
    ELSE IF AllOf(sub, "fulfilled") THEN 200
    ELSE 0

\* the request record after sub-operation i settled as outcome
Settled(req, i, outcome) ==
    LET sub == [req.sub EXCEPT ![i] = outcome]
    IN  [req EXCEPT
           !.sub = sub,
           !.pc = IF \E j \in 1..Len(sub) : sub[j] = "pending" THEN "pending" ELSE "done",
           !.status = PromiseAll(req.status, sub, outcome)]

Pending(kind, i) ==
    /\ bulkReq.kind = kind
    /\ bulkReq.pc = "pending"
    /\ i \in 1..Len(bulkReq.sub)
    /\ bulkReq.sub[i] = "pending"

\* PATCH /: validation and ids.map(delete) handed to Promise.all
PatchDepartments(valid, ids) ==
    /\ bulkReq.pc # "pending"
    /\ bulkReq' = IF valid THEN Dispatched("PATCH /", ids)
                  ELSE [IdleBulk EXCEPT !.kind = "PATCH /", !.pc = "done", !.status = 400]
    /\ UNCHANGED <<tables, now, nextId, postReq, response, seeders>>

\* DELETE FROM departments WHERE id = ids[i] completes, with its cascades
DeleteDepartment(i) ==
    /\ Pending("PATCH /", i)
    /\ Store(AfterDelete(Database, {bulkReq.items[i]}, {}, {}))
    /\ bulkReq' = Settled(bulkReq, i, "fulfilled")
    /\ UNCHANGED <<now, nextId, postReq, response, seeders>>

\* DELETE FROM departments WHERE id = ids[i] fails
DeleteDepartmentFails(i) ==
    /\ Pending("PATCH /", i)
    /\ bulkReq' = Settled(bulkReq, i, "rejected")
    /\ UNCHANGED <<tables, now, nextId, postReq, response, seeders>>

\* the rows left by DELETE FROM userToDepartment WHERE userId = .. AND departmentId = ..
WithoutMember(B, pair) ==
    LET Keep(r) == ~(r.userId = pair.userId /\ r.departmentId = pair.departmentId)
    IN  KeepRows(B, Keep)

\* PATCH /members: validation and idObject.map(delete) handed to Promise.all
PatchMembers(valid, idObject) ==
    /\ bulkReq.pc # "pending"
    /\ bulkReq' = IF valid THEN Dispatched("PATCH /members", idObject)
                  ELSE [IdleBulk EXCEPT !.kind = "PATCH /members", !.pc = "done",
                                        !.status = 400]
    /\ UNCHANGED <<tables, now, nextId, postReq, response, seeders>>

\* one DELETE FROM userToDepartment completes
DeleteMember(i) ==
    /\ Pending("PATCH /members", i)
    /\ userToDepartment' = WithoutMember(userToDepartment, bulkReq.items[i])
    /\ bulkReq' = Settled(bulkReq, i, "fulfilled")
    /\ UNCHANGED <<usersTable, departmentsTable, coursesTable, fields, lessonRostersTable,
                   marks, sessionsTable, attendanceTable, coursesToAcademies,
                   studentsToLessonRosters, departmentLeadersToDepartments,
                   lecturerToAcademy, now, nextId, postReq, response, seeders>>

\* one DELETE FROM userToDepartment fails
DeleteMemberFails(i) ==
    /\ Pending("PATCH /members", i)
    /\ bulkReq' = Settled(bulkReq, i, "rejected")
    /\ UNCHANGED <<tables, now, nextId, postReq, response, seeders>>

\* the clock advances
Tick ==
    /\ now < MaxTime
    /\ now' = now + 1
    /\ UNCHANGED <<tables, nextId, requests, seeders>>

----------------------------------------------------------------------------
(* The API server under two workloads: creating and renaming departments, *)
(* and managing memberships and deleting departments.                      *)

IdleSeed == [pc |-> "idle"]

Init ==
    /\ InitDatabase
    /\ now = 0
    /\ nextId = 3
    /\ postReq = [r \in Slots |-> IdlePost]
    /\ bulkReq = IdleBulk
    /\ response = [op |-> "none", status |-> 0]
    /\ userSeed = IdleSeed
    /\ courseSeed = IdleSeed

Next ==
    \/ \E r \in Slots, name \in Names : PostStart(r, name)
    \/ \E r \in Slots : PostCheck(r)
    \/ \E r \in Slots : PostInsert(r)
    \/ \E slug \in SlugParams, name \in Names : Put(slug, name)
    \/ Tick

Spec == Init /\ [][Next]_vars

NextBulk ==
    \/ \E u \in UserIdInputs, d \in DeptIdInputs, role \in RoleInputs : AddMember(u, d, role)
    \/ \E valid \in BOOLEAN, ids \in IdsInputs : PatchDepartments(valid, ids)
    \/ \E i \in 1..Len(bulkReq.sub) : DeleteDepartment(i)
    \/ \E i \in 1..Len(bulkReq.sub) : DeleteDepartmentFails(i)
    \/ \E valid \in BOOLEAN, idObject \in IdObjectInputs : PatchMembers(valid, idObject)
    \/ \E i \in 1..Len(bulkReq.sub) : DeleteMember(i)
    \/ \E i \in 1..Len(bulkReq.sub) : DeleteMemberFails(i)

SpecBulk == Init /\ [][NextBulk]_vars

----------------------------------------------------------------------------
(* userSeeder(length).                                                     *)

Min(a, b) == IF a <= b THEN a ELSE b

\* a batch that is always full
fullBatchSize(length, totalInserted) == batchSize

\* Math.min(batchSize, length - totalInserted)
currentBatchSize(length, totalInserted) == Min(batchSize, length - totalInserted)

\* the ids of the rows of one batch: fresh, one per generated user
BatchIds(totalInserted, size) == {3 + totalInserted + idx : idx \in 0..(size - 1)}

\* await db.delete(usersTable), with its cascades
UserSeederDelete(length) ==
    /\ userSeed.pc = "idle"
    /\ Store(AfterDelete(Database, {}, {}, usersTable))
    /\ userSeed' = [pc |-> "roles", length |-> length, totalInserted |-> 0,
                    lastBatch |-> 0, attempted |-> 0, inserted |-> 0]
    /\ UNCHANGED <<now, nextId, requests, courseSeed>>

\* the role ids are fetched once; the loop is not entered when length is 0
UserSeederRoles ==
    /\ userSeed.pc = "roles"
    /\ userSeed' = [userSeed EXCEPT
                       !.pc = IF userSeed.totalInserted < userSeed.length
                              THEN "loop" ELSE "done"]
    /\ UNCHANGED <<tables, now, nextId, requests, courseSeed>>

\* one pass through the while loop whose insert succeeds
UserSeederBatch ==
    /\ userSeed.pc = "loop"
    /\ LET size == currentBatchSize(userSeed.length, userSeed.totalInserted)
           total == userSeed.totalInserted + size
       IN  /\ usersTable' = usersTable \cup BatchIds(userSeed.totalInserted, size)
           /\ userSeed' = [userSeed EXCEPT
                              !.totalInserted = total,
                              !.lastBatch = size,
                              !.attempted = @ + 1,
                              !.inserted = @ + 1,
                              !.pc = IF total < userSeed.length THEN "loop" ELSE "done"]
    /\ UNCHANGED <<departmentsTable, dependents, now, nextId, requests, courseSeed>>

\* one pass through the while loop whose insert throws: the seeder rejects
UserSeederBatchFails ==
    /\ userSeed.pc = "loop"
    /\ userSeed' = [userSeed EXCEPT
                       !.lastBatch = currentBatchSize(userSeed.length, userSeed.totalInserted),
                       !.attempted = @ + 1,
                       !.pc = "failed"]
    /\ UNCHANGED <<tables, now, nextId, requests, courseSeed>>

NextUsers ==
    \/ \E length \in 0..MaxUserSeed : UserSeederDelete(length)
    \/ UserSeederRoles
    \/ UserSeederBatch
    \/ UserSeederBatchFails

SpecUsers == Init /\ [][NextUsers]_vars

----------------------------------------------------------------------------
(* coursesSeeder(length) and generateUniqueSlug.                           *)

\* the values of faker.commerce.department()
FakerDepartments == {<<"A", "b">>, <<"B", "a">>}

\* the values of Math.floor(Math.random() * 1000)
Suffixes == 0..(SuffixRange - 1)

\* `course-${timestamp}`
fallbackSlug(timestamp) == <<"c", "o", "u", "r", "s", "e", "-", ToString(timestamp)>>

\* await db.delete(coursesTable), with its cascades
CoursesSeederDelete(length) ==
    /\ courseSeed.pc = "idle"
    /\ Store(AfterDelete(Database, {}, Ids(coursesTable), {}))
    /\ courseSeed' = [pc |-> "load", length |-> length, departments |-> {},
                      existingSlugs |-> {}, coursesData |-> <<>>, attempts |-> 0]
    /\ UNCHANGED <<now, nextId, requests, userSeed>>

\* the department ids are loaded; with none the seeder logs and returns
CoursesSeederLoad ==
    /\ courseSeed.pc = "load"
    /\ courseSeed' = [courseSeed EXCEPT
                         !.departments = Ids(departmentsTable),
                         !.pc = IF departmentsTable = {} THEN "done" ELSE "generate"]
    /\ UNCHANGED <<tables, now, nextId, requests, userSeed>>

\* the seeder record once generateUniqueSlug has returned slug to the loop
\* body, which pushes the course onto coursesData
Returned(seed, slug, departmentId) ==
    [seed EXCEPT
        !.existingSlugs = @ \cup {slug},
        !.coursesData = Append(@, [slug |-> slug, departmentId |-> departmentId]),
        !.attempts = 0]

\* one pass through the while loop of generateUniqueSlug
GenerateAttempt(name, suffix, departmentId) ==
    /\ courseSeed.pc = "generate"
    /\ Len(courseSeed.coursesData) < courseSeed.length
    /\ courseSeed.attempts < maxAttempts
    /\ departmentId \in courseSeed.departments
    /\ LET slug == slugify(name)
           slugWithSuffix == WithSuffix(slug, suffix)
       IN  courseSeed' =
               IF slug \notin courseSeed.existingSlugs
               THEN Returned(courseSeed, slug, departmentId)
               ELSE IF slugWithSuffix \notin courseSeed.existingSlugs
               THEN Returned(courseSeed, slugWithSuffix, departmentId)
               ELSE [courseSeed EXCEPT !.attempts = @ + 1]
    /\ UNCHANGED <<tables, now, nextId, requests, userSeed>>

\* the fallback of generateUniqueSlug once the attempts are used up
GenerateFallback(departmentId) ==
    /\ courseSeed.pc = "generate"
    /\ Len(courseSeed.coursesData) < courseSeed.length
    /\ courseSeed.attempts = maxAttempts
    /\ departmentId \in courseSeed.departments
    /\ courseSeed' = Returned(courseSeed, fallbackSlug(now), departmentId)
    /\ UNCHANGED <<tables, now, nextId, requests, userSeed>>

\* the slugs of rows are pairwise distinct: the unique constraint of course.slug
UniqueSlugs(rows) ==
    \A i, j \in 1..Len(rows) : i # j => rows[i].slug # rows[j].slug

\* the single bulk insert: it throws, and inserts nothing, when two rows
\* share a slug
CoursesSeederInsert ==
    /\ courseSeed.pc = "generate"
    /\ Len(courseSeed.coursesData) = courseSeed.length
    /\ IF UniqueSlugs(courseSeed.coursesData)
       THEN /\ coursesTable' =
                   {[id |-> 3 + i,
                     departmentId |-> courseSeed.coursesData[i].departmentId,
                     slug |-> courseSeed.coursesData[i].slug] :
                        i \in 1..Len(courseSeed.coursesData)}
            /\ courseSeed' = [courseSeed EXCEPT !.pc = "done"]
       ELSE /\ courseSeed' = [courseSeed EXCEPT !.pc = "failed"]
            /\ UNCHANGED coursesTable
    /\ UNCHANGED <<usersTable, departmentsTable, fields, lessonRostersTable, marks,
                   sessionsTable, attendanceTable, coursesToAcademies,
                   studentsToLessonRosters, departmentLeadersToDepartments,
                   lecturerToAcademy, userToDepartment, now, nextId, requests, userSeed>>

NextCourses ==
    \/ \E length \in 1..MaxCourseSeed : CoursesSeederDelete(length)
    \/ CoursesSeederLoad
    \/ \E name \in FakerDepartments, suffix \in Suffixes, d \in {1, 2} :
           GenerateAttempt(name, suffix, d)
    \/ \E d \in {1, 2} : GenerateFallback(d)
    \/ CoursesSeederInsert
    \/ Tick

SpecCourses == Init /\ [][NextCourses]_vars

----------------------------------------------------------------------------
(* Properties of POST / and PUT /:slug, checked under Spec.                *)

Done(r) == postReq[r].pc = "done"

RowOf(r) == {d \in departmentsTable : d.id = postReq[r].row}

\* C1: every valid create call that ran with no other create call in flight
\* is answered 201 and has persisted a department whose slug is the first
\* unused value of base, base-1, base-2, ... (the slug its loop stopped at).
C1_SequentialCreatesSucceed ==
    \A r \in Slots :
        (Done(r) /\ createDepartmentSchema(postReq[r].name) /\ ~postReq[r].overlapped)
            => /\ postReq[r].status = 201
               /\ \E d \in RowOf(r) : d.slug = postReq[r].slug

\* C4: no step changes the createdAt, the slug or the id of a department:
\* a successful PUT /:slug changes the name and updatedAt only.
C4_CreatedAtImmutable ==
    [][\A d \in departmentsTable : \A e \in departmentsTable' :
           e.id = d.id => (e.createdAt = d.createdAt /\ e.slug = d.slug)]_vars

\* two finished create calls that had both passed the slug check before
\* either inserted
Raced(r, q) ==
    /\ r # q
    /\ Done(r) /\ Done(q)
    /\ postReq[r].raced /\ postReq[q].raced
    /\ slugify(postReq[r].name) = slugify(postReq[q].name)

\* C7, its states: no two departments share a slug; of two create calls
\* that raced at most one was answered 201; a call answered 500 persisted
\* no row and a call answered 201 persisted the row with the slug of its name.
C7_States ==
    /\ \A d, e \in departmentsTable : d.slug = e.slug => d = e
    /\ \A r, q \in Slots :
           Raced(r, q) => ~(postReq[r].status = 201 /\ postReq[q].status = 201)
    /\ \A r \in Slots :
           Done(r) => /\ postReq[r].status \in {201, 400, 500}
                      /\ postReq[r].status # 201 => postReq[r].row = 0
                      /\ postReq[r].status = 201 =>
                             \E d \in RowOf(r) : d.slug = slugify(postReq[r].name)

\* C7, its steps: an insert that meets a department with its slug is
\* answered 500 at once, without another pass through the slug search and
\* without a change to the departments.
C7_Steps ==
    \A r \in Slots :
        (postReq[r].pc = "insert" /\ postReq'[r].pc # "insert"
                                  /\ SlugTaken(slugify(postReq[r].name)))
            => /\ postReq'[r].pc = "done"
               /\ postReq'[r].status = 500
               /\ departmentsTable' = departmentsTable

\* C7: when two create calls with the same base slug interleave, storage
\* never holds two departments with one slug: at most one insert is answered
\* 201, the other fails on the unique constraint and is answered 500 without
\* a retry and without a row.
C7_RacingCreates == []C7_States /\ [][C7_Steps]_vars

\* C7, witnessed: two create calls raced, one was answered 201 and its row
\* is stored, the other was answered 500.
C7_Witness ==
    \E r, q \in Slots :
        /\ Raced(r, q)
        /\ postReq[r].status = 201 /\ RowOf(r) # {}
        /\ postReq[q].status = 500

----------------------------------------------------------------------------
(* Properties of the deletes, the memberships and the list, checked under  *)
(* SpecBulk.                                                               *)

\* the department a row hangs off, found by following its foreign keys
\* (0, the id of no department, for a row whose parent is missing)
Parent(T, id) == {r \in T : r.id = id}

DeptOfCourse(id) ==
    IF Parent(coursesTable, id) = {} THEN 0
    ELSE (CHOOSE c \in Parent(coursesTable, id) : TRUE).departmentId

DeptOfField(id) ==
    IF Parent(fields, id) = {} THEN 0
    ELSE DeptOfCourse((CHOOSE f \in Parent(fields, id) : TRUE).courseId)

DeptOfRoster(id) ==
    IF Parent(lessonRostersTable, id) = {} THEN 0
    ELSE DeptOfCourse((CHOOSE r \in Parent(lessonRostersTable, id) : TRUE).courseId)

DeptOfSession(id) ==
    IF Parent(sessionsTable, id) = {} THEN 0
    ELSE DeptOfRoster((CHOOSE x \in Parent(sessionsTable, id) : TRUE).lessonRosterId)

\* bag After holds exactly the rows of bag Before that satisfy Keep, each as
\* often as before
SameRowsWhere(After, Before, Keep(_)) ==
    /\ DOMAIN After = {r \in DOMAIN Before : Keep(r)}
    /\ \A r \in DOMAIN After : After[r] = Before[r]

\* what a step that deletes the departments gone does to the tables
OnlyDependentsRemoved(gone) ==
    /\ usersTable' = usersTable
    /\ departmentsTable' = {d \in departmentsTable : d.id \notin gone}
    /\ coursesTable' = {c \in coursesTable : c.departmentId \notin gone}
    /\ fields' = {f \in fields : DeptOfCourse(f.courseId) \notin gone}
    /\ marks' = {m \in marks : DeptOfField(m.fieldId) \notin gone}
    /\ lessonRostersTable' =
           {r \in lessonRostersTable : DeptOfCourse(r.courseId) \notin gone}
    /\ sessionsTable' = {x \in sessionsTable : DeptOfRoster(x.lessonRosterId) \notin gone}
    /\ attendanceTable' = {a \in attendanceTable : DeptOfSession(a.periodId) \notin gone}
    /\ LET Keep(r) == DeptOfRoster(r.lessonRosterId) \notin gone
       IN  SameRowsWhere(studentsToLessonRosters', studentsToLessonRosters, Keep)
    /\ LET Keep(r) == r.departmentId \notin gone /\ DeptOfCourse(r.courseId) \notin gone
       IN  SameRowsWhere(coursesToAcademies', coursesToAcademies, Keep)
    /\ LET Keep(r) == r.departmentId \notin gone
       IN  /\ SameRowsWhere(departmentLeadersToDepartments',
                            departmentLeadersToDepartments, Keep)
           /\ SameRowsWhere(lecturerToAcademy', lecturerToAcademy, Keep)
           /\ SameRowsWhere(userToDepartment', userToDepartment, Keep)

\* C2: a step that deletes a department removes exactly the rows that
\* reference it through their foreign keys (its courses, their fields and
\* marks, their rosters, sessions and attendance, and its membership rows)
\* and leaves every other row of every table, the users among them, as it was.
C2_CascadeDeletion ==
    [][Ids(departmentsTable') # Ids(departmentsTable)
           => OnlyDependentsRemoved(Ids(departmentsTable) \ Ids(departmentsTable'))]_vars

\* C2, witnessed: department 1 was deleted by a PATCH / while department 2
\* and the rows that hang off it are stored.
C2_Witness ==
    /\ bulkReq.kind = "PATCH /"
    /\ \E i \in 1..Len(bulkReq.items) :
           bulkReq.items[i] = 1 /\ bulkReq.sub[i] = "fulfilled"
    /\ Ids(departmentsTable) = {2}
    /\ attendanceTable # {} /\ marks # {} /\ coursesTable # {}

\* C3: each (userId, departmentId, role) membership is stored at most once.
C3_MembershipAtMostOnce ==
    \A r \in DOMAIN userToDepartment : userToDepartment[r] <= 1

\* C5 as stated: a bulk request is answered, 200 or 500, only after every
\* one of its sub-operations has settled.
C5_AnsweredAfterAllSettled ==
    bulkReq.status \in {200, 500} => \A i \in 1..Len(bulkReq.sub) : bulkReq.sub[i] # "pending"

\* C5 as amended: every sub-operation of a bulk request is started at once;
\* it is answered 200 only after every sub-operation has fulfilled, and 500
\* as soon as one has failed, whatever the others' state; until then it is
\* not answered.
C5_AnsweredAsPromiseAll ==
    /\ Len(bulkReq.sub) = Len(bulkReq.items)
    /\ bulkReq.status = 200 => AllOf(bulkReq.sub, "fulfilled")
    /\ bulkReq.status = 500 => \E i \in 1..Len(bulkReq.sub) : bulkReq.sub[i] = "rejected"
    /\ (bulkReq.pc # "idle" /\ bulkReq.status = 0)
           => /\ \E i \in 1..Len(bulkReq.sub) : bulkReq.sub[i] = "pending"
              /\ \A i \in 1..Len(bulkReq.sub) : bulkReq.sub[i] # "rejected"

\* C5, witnessed: a PATCH /members was answered 500 while one of its
\* deletes is still pending.
C5_Witness ==
    /\ bulkReq.kind = "PATCH /members"
    /\ bulkReq.status = 500
    /\ \E i \in 1..Len(bulkReq.sub) : bulkReq.sub[i] = "pending"

\* the step inserts one membership of user u in department d as LEADER
AddedLeader(u, d) ==
    userToDepartment' =
        InsertRow(userToDepartment, [userId |-> u, departmentId |-> d, role |-> LEADER])

\* the list after the step, against the list before it
LeaderCounted(d) ==
    LET before == ListDepartments
        after == ListDepartments'
    IN  /\ {a.id : a \in after} = {b.id : b \in before}
        /\ d \in {a.id : a \in after}
        /\ \A a \in after, b \in before :
               a.id = b.id =>
                   /\ a.leadersCount = b.leadersCount + (IF a.id = d THEN 1 ELSE 0)
                   /\ a.lecturersCount = b.lecturersCount
                   /\ a.coursesCount = b.coursesCount

\* C6: a step that adds a leader membership to department D is answered
\* 200 and makes GET / report for D a leadersCount one greater and the same
\* lecturersCount, and the same counts for every other department.
C6_LeaderAddedThenListed ==
    [][userToDepartment' # userToDepartment =>
           \A u \in UserIdInputs, d \in DeptIdInputs :
               AddedLeader(u, d) => (response'.status = 200 /\ LeaderCounted(d))]_vars

\* C6, witnessed: a POST /members was answered 200 and department 2, which
\* started with no membership, has a leader.
C6_Witness ==
    /\ response = [op |-> "POST /members", status |-> 200]
    /\ \E a \in ListDepartments : a.id = 2 /\ a.leadersCount = 1 /\ a.lecturersCount = 0

\* the sum of the coursesCount of the rows
RECURSIVE TotalCourses(_)
TotalCourses(rows) ==
    IF rows = {} THEN 0
    ELSE LET a == CHOOSE x \in rows : TRUE IN a.coursesCount + TotalCourses(rows \ {a})

\* C8: GET / returns one row per department, whose coursesCount is the
\* number of courses of that department however many memberships it has;
\* the coursesCount values add up to the number of courses.
C8_CoursesCounted ==
    /\ {a.id : a \in ListDepartments} = Ids(departmentsTable)
    /\ Cardinality(ListDepartments) = Cardinality(departmentsTable)
    /\ \A a \in ListDepartments :
           a.coursesCount = Cardinality({c \in coursesTable : c.departmentId = a.id})
    /\ TotalCourses(ListDepartments) = Cardinality(coursesTable)

\* C8, witnessed: a department with two courses and two memberships is listed.
C8_Witness ==
    \E a \in ListDepartments :
        a.coursesCount = 2 /\ a.leadersCount + a.lecturersCount >= 2

----------------------------------------------------------------------------
(* Properties of the seeders, checked under SpecUsers and SpecCourses.     *)

\* C9: userSeeder(length) first clears the users, then inserts batches of
\* at most 1000 users; it ends with exactly length users when no insert
\* fails (in no batch at all for length 0); when an insert fails no later
\* batch is tried and the earlier batches stay: the table holds a multiple
\* of 1000 rows, fewer than length.
C9_UserSeederBatches ==
    userSeed.pc # "idle" =>
        /\ Cardinality(usersTable) = userSeed.totalInserted
        /\ usersTable \cap PopulatedDatabase.usersTable = {}
        /\ userSeed.lastBatch <= batchSize
        /\ userSeed.pc = "done" =>
               /\ Cardinality(usersTable) = userSeed.length
               /\ userSeed.attempted = userSeed.inserted
               /\ userSeed.length = 0 => userSeed.attempted = 0
        /\ userSeed.pc = "failed" =>
               /\ Cardinality(usersTable) = batchSize * userSeed.inserted
               /\ Cardinality(usersTable) < userSeed.length
               /\ userSeed.attempted = userSeed.inserted + 1

\* C9, witnessed: the second batch of a run failed and the first one, of
\* 1000 users, is stored.
C9_Witness ==
    /\ userSeed.pc = "failed"
    /\ userSeed.inserted = 1
    /\ Cardinality(usersTable) = 1000

\* C10: within one run of coursesSeeder every slug generateUniqueSlug
\* returns differs from the slugs it returned before, so the slugs handed
\* to the bulk insert are pairwise distinct.
C10_GeneratedSlugsDistinct ==
    courseSeed.pc \in {"generate", "done", "failed"} => UniqueSlugs(courseSeed.coursesData)

====
